---- MODULE Spec2Model ----
(***************************************************************************)
(* Model of the signing workflow of the PDF signer front end:             *)
(*   - ApplicationSection (src/unnamed/part_004, lines 1-571): the session *)
(*     state, the upload callbacks, updateSignatureBox, handleSignPdf,     *)
(*     handleStampPdf and handleDeleteSignedPdf;                           *)
(*   - PDFPreview (src/unnamed/part_002, lines 370-837): clamp,            *)
(*     handlePageClick and the three pointer handlers of the overlay.      *)
(*                                                                         *)
(* Numbers.  A normalized coordinate v in [0,1] is the integer v * Unit    *)
(* with Unit = 100000, so 0.25 is 25000 and 0.0001 (the resolution of      *)
(* toFixed(4)) is 10.  Arithmetic is exact; the binary rounding of IEEE    *)
(* doubles is not modelled.  Page sizes are whole points, and a drawn      *)
(* rectangle is kept in units of point/Unit, so x * pageWidth is exact.    *)
(*                                                                         *)
(* Each action is one event handler run to completion, or the part of an   *)
(* async handler between two awaits; React re-renders between events, so   *)
(* a handler reads the state left by the previous action, while the        *)
(* continuation of an async handler reads the values its closure captured  *)
(* (kept in the variable run).                                             *)
(***************************************************************************)
EXTENDS Integers, Sequences, FiniteSets, TLC

VARIABLES
    currentStep,          \* part_004:19
    uploadedPdf,          \* part_004:20   File | null
    uploadedSignature,    \* part_004:21   File | null
    documentId,           \* part_004:22
    signatureId,          \* part_004:23
    signedPdfUrl,         \* part_004:24
    signedDocumentId,     \* part_004:25
    signedBlob,           \* part_004:26
    error,                \* part_004:28
    isSigning,            \* part_004:29
    signaturePosition,    \* part_004:30
    placementMode,        \* part_004:31
    signaturePreviewUrl,  \* part_004:33
    signatureBoxState,    \* part_004:34-37  {history, index}; index is 0-based
    hasSignedOnce,        \* part_004:38
    dragStateRef,         \* part_002:426-432
    selectedImage,        \* SignatureUpload.tsx:14  the widget's own preview
    run,                  \* the invocation of handleSignPdf in flight
    del,                  \* the invocation of handleDeleteSignedPdf in flight
    toast                 \* the last message given to showError/showSuccess

vars == <<currentStep, uploadedPdf, uploadedSignature, documentId, signatureId,
          signedPdfUrl, signedDocumentId, signedBlob, error, isSigning,
          signaturePosition, placementMode, signaturePreviewUrl,
          signatureBoxState, hasSignedOnce, dragStateRef, selectedImage, run,
          del, toast>>

\* null.  Files, boxes, ids and messages are all compared with it, so each of
\* them is a record: an id is [id |-> n], a message [message |-> "..."].
NULL == [null |-> TRUE]

----------------------------------------------------------------------------
(* Bounds of the model *)

\* A commit is taken only while the history it leaves has at most MaxHistory
\* snapshots.
MaxHistory == 2

(* Program constants, in units of 1/Unit *)

Unit == 100000
defaultWidth == 25000
defaultHeight == 12000
minWidth == 5000
minHeight == 3000

----------------------------------------------------------------------------
(* Inputs *)

\* Page sizes in points: A4 and a smaller page.
PageA == [width |-> 595, height |-> 842]
PageB == [width |-> 420, height |-> 595]

\* The PDF files a user can upload; pages is what the parser reports.
PdfFiles ==
    { [name |-> "two.pdf",   pages |-> <<PageA, PageB>>],
      [name |-> "empty.pdf", pages |-> <<>>] }

\* The image files a user uploads in the runs of the whole session: file
\* name, its extension, the declared MIME type and the format of the bytes.
ImageFiles ==
    { [name |-> "sig.png", extension |-> ".png", type |-> "image/png",
       format |-> "png"],
      [name |-> "sig.jpg", extension |-> ".jpg", type |-> "image/jpeg",
       format |-> "jpeg"] }

\* Every file a user can pick in the signature widget: the two above, a PNG
\* and a WebP image that carry a .png name but not a PNG type (a file comes
\* with the type its source gave it, which may be empty), and a GIF.  All are
\* within the size limits of validateImage.
PickedImages ==
    ImageFiles \cup
    { [name |-> "scan.png", extension |-> ".png", type |-> "",
       format |-> "png"],
      [name |-> "pic.png",  extension |-> ".png", type |-> "image/webp",
       format |-> "webp"],
      [name |-> "anim.gif", extension |-> ".gif", type |-> "image/gif",
       format |-> "gif"] }

\* Pointer ids of the input devices.
Pointers == {1, 2}

\* Pointer positions of pointerMove events, normalized to the first page.
\* A captured pointer may leave the page, hence values outside 0..Unit.
MovePoints == { <<48500, 40000>>, <<130000, -30000>> }

\* Positions of clicks on a page (inside the page container).
ClickPoints == { <<3, 60004>> }

\* Page indexes a click can land on.
PageIndexes == {0, 1}

----------------------------------------------------------------------------
(* Pure helpers *)

\* clamp without its upper bound
clampNoMax(value, min, max) ==
    IF value < min THEN min ELSE value

\* clamp without its lower bound
clampNoMin(value, min, max) ==
    IF value > max THEN max ELSE value

\* part_002:506-510
clamp(value, min, max) ==
    IF value < min THEN min
    ELSE IF value > max THEN max
    ELSE value

\* Number(v.toFixed(4)): round to the nearest multiple of 0.0001 (10 units).
toFixed4(v) == ((v + 5) \div 10) * 10

\* part_004:88-95
defaultBox ==
    [ x      |-> toFixed4((Unit - defaultWidth) \div 2),
      y      |-> toFixed4((Unit - defaultHeight) \div 2),
      width  |-> toFixed4(defaultWidth),
      height |-> toFixed4(defaultHeight) ]

\* src/unnamed/part_003: the toast helpers; the model keeps the last toast.
showError(message) == [kind |-> "error", message |-> message]

showSuccess(message) == [kind |-> "success", message |-> message]

\* part_004:54-59
currentSignatureBox ==
    IF signatureBoxState.index < 0 THEN NULL
    ELSE IF signatureBoxState.index + 1 \in DOMAIN signatureBoxState.history
         THEN signatureBoxState.history[signatureBoxState.index + 1]
         ELSE NULL

\* part_004:137-144 and the effect at part_004:151-162
positionOf(box) ==
    IF box = NULL THEN NULL
    ELSE [x |-> box.x + box.width \div 2, y |-> box.y + box.height \div 2]

\* the state updater appending to the whole history, without slice()
nextBoxStateKeepingTail(prev, box, pushHistory) ==
    IF box = NULL THEN [history |-> <<>>, index |-> -1]
    ELSE IF pushHistory
         THEN LET appended == Append(prev.history, box)
              IN  [history |-> appended, index |-> Len(appended) - 1]
         ELSE IF Len(prev.history) = 0 \/ prev.index < 0
              THEN [history |-> <<box>>, index |-> 0]
              ELSE [history |-> [prev.history EXCEPT ![prev.index + 1] = box],
                    index   |-> prev.index]

\* the state updater setting the index to the length of the new history
nextBoxStateIndexPastEnd(prev, box, pushHistory) ==
    IF box = NULL THEN [history |-> <<>>, index |-> -1]
    ELSE IF pushHistory
         THEN LET truncated == Append(SubSeq(prev.history, 1, prev.index + 1), box)
              IN  [history |-> truncated, index |-> Len(truncated)]
         ELSE IF Len(prev.history) = 0 \/ prev.index < 0
              THEN [history |-> <<box>>, index |-> 0]
              ELSE [history |-> [prev.history EXCEPT ![prev.index + 1] = box],
                    index   |-> prev.index]

\* part_004:99-136, the state updater of updateSignatureBox
nextBoxState(prev, box, pushHistory) ==
    IF box = NULL THEN [history |-> <<>>, index |-> -1]
    ELSE IF pushHistory
         THEN LET truncated == Append(SubSeq(prev.history, 1, prev.index + 1), box)
              IN  [history |-> truncated, index |-> Len(truncated) - 1]
         ELSE IF Len(prev.history) = 0 \/ prev.index < 0
              THEN [history |-> <<box>>, index |-> 0]
              ELSE [history |-> [prev.history EXCEPT ![prev.index + 1] = box],
                    index   |-> prev.index]

----------------------------------------------------------------------------
Init ==
    /\ currentStep = "upload"
    /\ uploadedPdf = NULL
    /\ uploadedSignature = NULL
    /\ documentId = NULL
    /\ signatureId = NULL
    /\ signedPdfUrl = NULL
    /\ signedDocumentId = NULL
    /\ signedBlob = NULL
    /\ error = NULL
    /\ isSigning = FALSE
    /\ signaturePosition = NULL
    /\ placementMode = FALSE
    /\ signaturePreviewUrl = NULL
    /\ signatureBoxState = [history |-> <<>>, index |-> -1]
    /\ hasSignedOnce = FALSE
    /\ dragStateRef = NULL
    /\ selectedImage = NULL
    /\ run = NULL
    /\ del = NULL
    /\ toast = NULL

\* The id the upload service returns with a stored file (part_002:75,
\* SignatureUpload.tsx:87).  The model names an upload by its file.
idOf(file) == [id |-> file.name]

\* part_004:61-70
handlePdfUpload(file) ==
    /\ uploadedPdf' = file
    /\ documentId' = idOf(file)
    /\ currentStep' = "signature"
    /\ error' = NULL
    /\ signedPdfUrl' = NULL
    /\ signedBlob' = NULL
    /\ signedDocumentId' = NULL
    /\ hasSignedOnce' = FALSE
    /\ UNCHANGED <<uploadedSignature, signatureId, isSigning, signaturePosition,
                   placementMode, signaturePreviewUrl, selectedImage, signatureBoxState,
                   dragStateRef, run, del, toast>>

\* handleSignatureUpload leaving the box and its history as they are
handleSignatureUploadKeepingBox(file) ==
    /\ documentId # NULL
    /\ uploadedSignature' = file
    /\ signatureId' = idOf(file)
    /\ error' = NULL
    /\ currentStep' = "preview"
    /\ placementMode' = TRUE
    /\ signedPdfUrl' = NULL
    /\ signedBlob' = NULL
    /\ signedDocumentId' = NULL
    /\ hasSignedOnce' = FALSE
    /\ signaturePreviewUrl' = [url |-> file.name]
    /\ selectedImage' = [url |-> file.name]
    /\ UNCHANGED <<uploadedPdf, documentId, isSigning, dragStateRef, run, del,
                   toast, signatureBoxState, signaturePosition>>

\* part_004:72-97.  The session passes the file on after validateImage and
\* the upload request succeeded (SignatureUpload.tsx:43-87); the section is
\* inert until a document id exists (part_004:476).
handleSignatureUpload(file) ==
    /\ documentId # NULL
    /\ uploadedSignature' = file
    /\ signatureId' = idOf(file)
    /\ error' = NULL
    /\ currentStep' = "preview"
    /\ signatureBoxState' = [history |-> <<defaultBox>>, index |-> 0]
    /\ signaturePosition' = positionOf(defaultBox)
    /\ placementMode' = TRUE
    /\ signedPdfUrl' = NULL
    /\ signedBlob' = NULL
    /\ signedDocumentId' = NULL
    /\ hasSignedOnce' = FALSE
    /\ signaturePreviewUrl' = [url |-> file.name]
    /\ selectedImage' = [url |-> file.name]
    /\ UNCHANGED <<uploadedPdf, documentId, isSigning, dragStateRef, run, del,
                   toast>>

\* SignatureUpload.tsx:134-145, the Remove button of the widget (shown with
\* the preview, SignatureUpload.tsx:176, 294-302).  It clears the widget's
\* own state and calls nothing of the session.
resetUpload ==
    /\ documentId # NULL
    /\ selectedImage # NULL
    /\ selectedImage' = NULL
    /\ UNCHANGED <<currentStep, uploadedPdf, uploadedSignature, documentId,
                   signatureId, signedPdfUrl, signedDocumentId, signedBlob,
                   error, isSigning, signaturePosition, placementMode,
                   signaturePreviewUrl, signatureBoxState, hasSignedOnce,
                   dragStateRef, run, del, toast>>

----------------------------------------------------------------------------
(* PDFPreview: what is on screen *)

\* part_004:489: the preview card (pages, overlay, buttons) takes pointer
\* input only while both files are present.
previewInteractive == uploadedPdf # NULL /\ uploadedSignature # NULL

\* part_002:758-763: number of page containers rendered; the first one
\* carries firstPageContainerRef.
numPages == IF uploadedPdf = NULL THEN 0 ELSE Len(uploadedPdf.pages)

\* part_002:774: the signature overlay is rendered on every page
overlayShown ==
    signaturePreviewUrl # NULL /\ currentSignatureBox # NULL /\ numPages > 0

\* part_004:525-527 with part_004:99-147 and the effect at 151-162:
\* onSignatureBoxChange as the session applies it
updateSignatureBox(box, pushHistory) ==
    /\ signatureBoxState' = nextBoxState(signatureBoxState, box, pushHistory)
    /\ signaturePosition' = positionOf(box)

\* handlePageClick treating every page as the first one
handlePageClickAnyPage(pageIndex, pt) ==
    /\ previewInteractive
    /\ pageIndex < numPages
    /\ LET x == pt[1]
           y == pt[2]
           boxX == clamp(x - defaultWidth \div 2, 0, Unit - defaultWidth)
           boxY == clamp(y - defaultHeight \div 2, 0, Unit - defaultHeight)
           box == [ x      |-> toFixed4(boxX),
                    y      |-> toFixed4(boxY),
                    width  |-> toFixed4(defaultWidth),
                    height |-> toFixed4(defaultHeight) ]
       IN  /\ toast' = toast
           /\ IF placementMode
              THEN /\ signatureBoxState.index + 1 < MaxHistory
                   /\ updateSignatureBox(box, TRUE)
              ELSE /\ signaturePosition' = [x |-> toFixed4(x), y |-> toFixed4(y)]
                   /\ UNCHANGED signatureBoxState
    /\ UNCHANGED <<currentStep, uploadedPdf, uploadedSignature, documentId,
                   signatureId, signedPdfUrl, signedDocumentId, signedBlob,
                   error, isSigning, placementMode, signaturePreviewUrl, selectedImage,
                   hasSignedOnce, dragStateRef, run, del>>

\* part_002:512-545
handlePageClick(pageIndex, pt) ==
    /\ previewInteractive
    /\ pageIndex < numPages
    /\ IF pageIndex # 0
       THEN /\ toast' = showError("Hey! Signature positioning should be done only on the first page.")
            /\ UNCHANGED <<signatureBoxState, signaturePosition>>
       ELSE LET x == pt[1]
                y == pt[2]
                boxX == clamp(x - defaultWidth \div 2, 0, Unit - defaultWidth)
                boxY == clamp(y - defaultHeight \div 2, 0, Unit - defaultHeight)
                box == [ x      |-> toFixed4(boxX),
                         y      |-> toFixed4(boxY),
                         width  |-> toFixed4(defaultWidth),
                         height |-> toFixed4(defaultHeight) ]
            IN  /\ toast' = toast
                /\ IF placementMode
                   THEN /\ signatureBoxState.index + 1 < MaxHistory
                        /\ updateSignatureBox(box, TRUE)
                   ELSE /\ signaturePosition' = [x |-> toFixed4(x), y |-> toFixed4(y)]
                        /\ UNCHANGED signatureBoxState
    /\ UNCHANGED <<currentStep, uploadedPdf, uploadedSignature, documentId,
                   signatureId, signedPdfUrl, signedDocumentId, signedBlob,
                   error, isSigning, placementMode, signaturePreviewUrl, selectedImage,
                   hasSignedOnce, dragStateRef, run, del>>

\* Where a pointer goes down: inside the box body for a move, on the handle
\* in the bottom-right corner of the box for a resize (part_002:783, 794-797).
grabPoint(box, mode) ==
    IF mode = "move" THEN <<box.x + 1000, box.y + 1000>>
    ELSE <<box.x + box.width - 1000, box.y + box.height - 1000>>

\* part_002:547-566
handleSignaturePointerDown(pointerId, mode) ==
    /\ previewInteractive /\ overlayShown
    /\ IF ~placementMode \/ currentSignatureBox = NULL \/ numPages = 0
       THEN UNCHANGED dragStateRef
       ELSE dragStateRef' =
                [ mode      |-> mode,
                  pointerId |-> pointerId,
                  startX    |-> grabPoint(currentSignatureBox, mode)[1],
                  startY    |-> grabPoint(currentSignatureBox, mode)[2],
                  startBox  |-> currentSignatureBox ]
    /\ UNCHANGED <<currentStep, uploadedPdf, uploadedSignature, documentId,
                   signatureId, signedPdfUrl, signedDocumentId, signedBlob,
                   error, isSigning, signaturePosition, placementMode,
                   signaturePreviewUrl, selectedImage, signatureBoxState, hasSignedOnce, run,
                   del, toast>>

\* part_002:774-797: a pointer goes down on the overlay of a page.  Only the
\* overlay of the first page carries the pointer handlers and the resize
\* handle; on the other pages it is pointer-events-none and has no
\* onPointerDown, so nothing handles the event.
overlayPointerDown(pageIndex, pointerId, mode) ==
    IF pageIndex = 0
    THEN handleSignaturePointerDown(pointerId, mode)
    ELSE /\ previewInteractive /\ overlayShown
         /\ pageIndex < numPages
         /\ UNCHANGED vars

\* draggedBox moving the box of the state instead of the start box
draggedBoxFromCurrent(dragState, pt) ==
    LET deltaX == pt[1] - dragState.startX
        deltaY == pt[2] - dragState.startY
        currentBox == IF dragState.mode = "move" /\ currentSignatureBox # NULL
                      THEN currentSignatureBox
                      ELSE dragState.startBox
    IN  IF dragState.mode = "move"
        THEN [currentBox EXCEPT
                !.x = clamp(currentBox.x + deltaX, 0, Unit - currentBox.width),
                !.y = clamp(currentBox.y + deltaY, 0, Unit - currentBox.height)]
        ELSE [currentBox EXCEPT
                !.width  = clamp(currentBox.width + deltaX, minWidth, Unit - currentBox.x),
                !.height = clamp(currentBox.height + deltaY, minHeight, Unit - currentBox.y)]

\* draggedBox letting a resize grow up to the size of the page
draggedBoxResizeToPage(dragState, pt) ==
    LET deltaX == pt[1] - dragState.startX
        deltaY == pt[2] - dragState.startY
        currentBox == dragState.startBox
    IN  IF dragState.mode = "move"
        THEN [currentBox EXCEPT
                !.x = clamp(currentBox.x + deltaX, 0, Unit - currentBox.width),
                !.y = clamp(currentBox.y + deltaY, 0, Unit - currentBox.height)]
        ELSE [currentBox EXCEPT
                !.width  = clamp(currentBox.width + deltaX, minWidth, Unit),
                !.height = clamp(currentBox.height + deltaY, minHeight, Unit)]

\* part_002:574-607: the box a pointerMove at pt produces from a drag state
draggedBox(dragState, pt) ==
    LET deltaX == pt[1] - dragState.startX
        deltaY == pt[2] - dragState.startY
        currentBox == dragState.startBox
    IN  IF dragState.mode = "move"
        THEN [currentBox EXCEPT
                !.x = clamp(currentBox.x + deltaX, 0, Unit - currentBox.width),
                !.y = clamp(currentBox.y + deltaY, 0, Unit - currentBox.height)]
        ELSE [currentBox EXCEPT
                !.width  = clamp(currentBox.width + deltaX, minWidth, Unit - currentBox.x),
                !.height = clamp(currentBox.height + deltaY, minHeight, Unit - currentBox.y)]

\* handleSignaturePointerMove committing each move to the history
handleSignaturePointerMovePushing(pointerId, pt) ==
    /\ previewInteractive /\ overlayShown
    /\ IF dragStateRef = NULL \/ numPages = 0
       THEN UNCHANGED <<signatureBoxState, signaturePosition>>
       ELSE /\ signatureBoxState.index + 1 < MaxHistory
            /\ updateSignatureBox(draggedBox(dragStateRef, pt), TRUE)
    /\ UNCHANGED <<currentStep, uploadedPdf, uploadedSignature, documentId,
                   signatureId, signedPdfUrl, signedDocumentId, signedBlob,
                   error, isSigning, placementMode, signaturePreviewUrl,
                   selectedImage, hasSignedOnce, dragStateRef, run, del,
                   toast>>

\* part_002:568-608.  The handler does not look at event.pointerId.
handleSignaturePointerMove(pointerId, pt) ==
    /\ previewInteractive /\ overlayShown
    /\ IF dragStateRef = NULL \/ numPages = 0
       THEN UNCHANGED <<signatureBoxState, signaturePosition>>
       ELSE updateSignatureBox(draggedBox(dragStateRef, pt), FALSE)
    /\ UNCHANGED <<currentStep, uploadedPdf, uploadedSignature, documentId,
                   signatureId, signedPdfUrl, signedDocumentId, signedBlob,
                   error, isSigning, placementMode, signaturePreviewUrl, selectedImage,
                   hasSignedOnce, dragStateRef, run, del, toast>>

\* part_002:610-627.  The handler does not look at event.pointerId.
handleSignaturePointerUp(pointerId) ==
    /\ previewInteractive /\ overlayShown
    /\ IF dragStateRef = NULL \/ currentSignatureBox = NULL
       THEN UNCHANGED <<signatureBoxState, signaturePosition>>
       ELSE /\ signatureBoxState.index + 1 < MaxHistory
            /\ updateSignatureBox(currentSignatureBox, TRUE)
    /\ dragStateRef' = NULL
    /\ UNCHANGED <<currentStep, uploadedPdf, uploadedSignature, documentId,
                   signatureId, signedPdfUrl, signedDocumentId, signedBlob,
                   error, isSigning, placementMode, signaturePreviewUrl, selectedImage,
                   hasSignedOnce, run, del, toast>>

----------------------------------------------------------------------------
(* Stamping: handleStampPdf and handleSignPdf *)

\* drawRect without the origin flip: the top-left y is used as it is
drawRectUnflipped(box, page) ==
    [ x      |-> box.x * page.width,
      y      |-> box.y * page.height,
      width  |-> box.width * page.width,
      height |-> box.height * page.height ]

\* part_004:200-207: the rectangle drawn on one page, in pdf-lib's
\* bottom-left coordinates (units of point/Unit)
drawRect(box, page) ==
    LET pageWidth == page.width
        pageHeight == page.height
        drawWidth == box.width * pageWidth
        drawHeight == box.height * pageHeight
        topY == box.y * pageHeight
        leftX == box.x * pageWidth
    IN  [ x      |-> leftX,
          y      |-> pageHeight * Unit - topY - drawHeight,
          width  |-> drawWidth,
          height |-> drawHeight ]

\* the loop over the pages leaving out the last page
drawAllPagesButLast(box, pages) ==
    [i \in 1..(Len(pages) - 1) |-> drawRect(box, pages[i])]

\* part_004:198-214: the loop over pdfDoc.getPages(); entry i is what was
\* drawn on page i
drawAllPages(box, pages) == [i \in 1..Len(pages) |-> drawRect(box, pages[i])]

\* SignatureUpload.tsx:25-41: the file passes validateImage (TRUE when it
\* returns null): an allowed type or an allowed extension
validateImage(file) ==
    \/ file.type \in {"image/png", "image/jpeg", "image/jpg"}
    \/ file.extension \in {".png", ".jpg", ".jpeg"}

\* The files the widget hands to the session (SignatureUpload.tsx:44-50, 87)
AcceptedImages == { f \in PickedImages : validateImage(f) }

\* part_004:188-189: the procedure is chosen by the declared type alone;
\* of the types above only "image/png" includes 'png'
embedProcedure(file) ==
    LET isPng == file.type \in {"image/png"}
    IN  IF isPng THEN "embedPng" ELSE "embedJpg"

\* part_004:189: each procedure of pdf-lib accepts only bytes of its own
\* format and throws on any other
embedSucceeds(file) ==
    IF embedProcedure(file) = "embedPng" THEN file.format = "png"
    ELSE file.format = "jpeg"

\* part_004:531-539: the Stamp PDF button is enabled
stampButtonEnabled ==
    /\ previewInteractive
    /\ currentSignatureBox # NULL
    /\ ~isSigning
    /\ ~hasSignedOnce

\* handleStampPdf with a button and guards that do not look at isSigning
handleStampPdfWhileSigning ==
    /\ previewInteractive
    /\ currentSignatureBox # NULL
    /\ ~hasSignedOnce
    /\ documentId # NULL /\ signatureId # NULL
    /\ currentStep' = "signing"
    /\ error' = NULL
    /\ isSigning' = TRUE
    /\ run' = [ pc                |-> "load",
                documentId        |-> documentId,
                signatureId       |-> signatureId,
                uploadedPdf       |-> uploadedPdf,
                uploadedSignature |-> uploadedSignature,
                box               |-> currentSignatureBox,
                signaturePosition |-> signaturePosition,
                drawn             |-> <<>> ]
    /\ UNCHANGED <<uploadedPdf, uploadedSignature, documentId, signatureId,
                   signedPdfUrl, signedDocumentId, signedBlob, signaturePosition,
                   placementMode, signaturePreviewUrl, selectedImage,
                   signatureBoxState, hasSignedOnce, dragStateRef, del, toast>>

\* part_004:250-258 and part_004:164-181: a click on Stamp PDF, up to the
\* first await of handleSignPdf.  The handler runs in the render that
\* followed the previous event: the state updates of a click are committed
\* before the next event is dispatched.
handleStampPdf ==
    /\ stampButtonEnabled
    /\ IF documentId = NULL \/ signatureId = NULL \/ uploadedSignature = NULL
          \/ currentSignatureBox = NULL \/ isSigning \/ hasSignedOnce
       THEN UNCHANGED <<currentStep, error, isSigning, run, toast>>
       ELSE IF uploadedPdf = NULL
       THEN /\ error' = [message |-> "Please upload both PDF and signature"]
            /\ toast' = showError("Please upload both PDF and signature")
            /\ UNCHANGED <<currentStep, isSigning, run>>
       ELSE /\ currentStep' = "signing"
            /\ error' = NULL
            /\ isSigning' = TRUE
            /\ run' = [ pc                |-> "load",
                        documentId        |-> documentId,
                        signatureId       |-> signatureId,
                        uploadedPdf       |-> uploadedPdf,
                        uploadedSignature |-> uploadedSignature,
                        box               |-> currentSignatureBox,
                        signaturePosition |-> signaturePosition,
                        drawn             |-> <<>> ]
            /\ toast' = toast
    /\ UNCHANGED <<uploadedPdf, uploadedSignature, documentId, signatureId,
                   signedPdfUrl, signedDocumentId, signedBlob, signaturePosition,
                   placementMode, signaturePreviewUrl, selectedImage, signatureBoxState,
                   hasSignedOnce, dragStateRef, del>>

\* part_004:185-187: both arrayBuffer() reads and PDFDocument.load resolved
signLoaded ==
    /\ run # NULL /\ run.pc = "load"
    /\ run' = [run EXCEPT !.pc = "embed"]
    /\ UNCHANGED <<currentStep, uploadedPdf, uploadedSignature, documentId,
                   signatureId, signedPdfUrl, signedDocumentId, signedBlob,
                   error, isSigning, signaturePosition, placementMode,
                   signaturePreviewUrl, selectedImage, signatureBoxState, hasSignedOnce,
                   dragStateRef, del, toast>>

\* signEmbedded reading the box of the state at the time of drawing
signEmbeddedLiveBox ==
    /\ run # NULL /\ run.pc = "embed"
    /\ embedSucceeds(run.uploadedSignature)
    /\ currentSignatureBox # NULL
    /\ run' = [run EXCEPT !.pc = "save",
                          !.drawn = drawAllPages(currentSignatureBox,
                                                 run.uploadedPdf.pages)]
    /\ UNCHANGED <<currentStep, uploadedPdf, uploadedSignature, documentId,
                   signatureId, signedPdfUrl, signedDocumentId, signedBlob,
                   error, isSigning, signaturePosition, placementMode,
                   signaturePreviewUrl, selectedImage, signatureBoxState,
                   hasSignedOnce, dragStateRef, del, toast>>

\* part_004:188-217: the embed resolved; the box check and the loop over the
\* pages run without an await, up to the call of pdfDoc.save()
signEmbedded ==
    /\ run # NULL /\ run.pc = "embed"
    /\ embedSucceeds(run.uploadedSignature)
    /\ run.box # NULL
    /\ run' = [run EXCEPT !.pc = "save",
                          !.drawn = drawAllPages(run.box, run.uploadedPdf.pages)]
    /\ UNCHANGED <<currentStep, uploadedPdf, uploadedSignature, documentId,
                   signatureId, signedPdfUrl, signedDocumentId, signedBlob,
                   error, isSigning, signaturePosition, placementMode,
                   signaturePreviewUrl, selectedImage, signatureBoxState, hasSignedOnce,
                   dragStateRef, del, toast>>

\* part_004:217-224: the bytes pdfDoc.save() resolved with, wrapped in a Blob
stampedBlob(r) ==
    [ documentId  |-> r.documentId,
      signatureId |-> r.signatureId,
      box         |-> r.box,
      drawn       |-> r.drawn ]

\* part_004:217-227: save() resolved; the blob and its URL are stored and
\* the registration request is sent
signSaved ==
    /\ run # NULL /\ run.pc = "save"
    /\ signedBlob' = stampedBlob(run)
    /\ signedPdfUrl' = [url |-> stampedBlob(run)]
    /\ run' = [run EXCEPT !.pc = "register"]
    /\ UNCHANGED <<currentStep, uploadedPdf, uploadedSignature, documentId,
                   signatureId, signedDocumentId, error, isSigning,
                   signaturePosition, placementMode, signaturePreviewUrl, selectedImage,
                   signatureBoxState, hasSignedOnce, dragStateRef, del, toast>>

\* part_004:226-237 and 245-247: apiService.signPDF settled (a rejection is
\* caught and logged); the run ends in 'complete'
signRegistered(ok) ==
    /\ run # NULL /\ run.pc = "register"
    /\ signedDocumentId' =
           IF ok THEN [id |-> <<run.documentId.id, run.signatureId.id>>]
           ELSE signedDocumentId
    /\ toast' = showSuccess("PDF signed successfully! Ready for download.")
    /\ currentStep' = "complete"
    /\ isSigning' = FALSE
    /\ run' = NULL
    /\ UNCHANGED <<uploadedPdf, uploadedSignature, documentId, signatureId,
                   signedPdfUrl, signedBlob, error, signaturePosition,
                   placementMode, signaturePreviewUrl, selectedImage, signatureBoxState,
                   hasSignedOnce, dragStateRef, del>>

\* signFailed publishing what the run had drawn so far
signFailedPublishing ==
    /\ run # NULL /\ run.pc \in {"load", "embed", "save"}
    /\ error' = [message |-> "Failed to sign PDF. Please try again."]
    /\ toast' = showError("Failed to sign PDF. Please try again.")
    /\ currentStep' = "preview"
    /\ isSigning' = FALSE
    /\ run' = NULL
    /\ signedBlob' = stampedBlob(run)
    /\ signedPdfUrl' = [url |-> stampedBlob(run)]
    /\ UNCHANGED <<uploadedPdf, uploadedSignature, documentId, signatureId,
                   signedDocumentId, signaturePosition,
                   placementMode, signaturePreviewUrl, selectedImage, signatureBoxState,
                   hasSignedOnce, dragStateRef, del>>

\* signFailed discarding the placement
signFailedDroppingBox ==
    /\ run # NULL /\ run.pc \in {"load", "embed", "save"}
    /\ error' = [message |-> "Failed to sign PDF. Please try again."]
    /\ toast' = showError("Failed to sign PDF. Please try again.")
    /\ currentStep' = "preview"
    /\ isSigning' = FALSE
    /\ run' = NULL
    /\ signatureBoxState' = [history |-> <<>>, index |-> -1]
    /\ signaturePosition' = NULL
    /\ UNCHANGED <<uploadedPdf, uploadedSignature, documentId, signatureId,
                   signedPdfUrl, signedDocumentId, signedBlob,
                   placementMode, signaturePreviewUrl, selectedImage,
                   hasSignedOnce, dragStateRef, del>>

\* signFailed without the finally block: isSigning is left as it is
signFailedStillSigning ==
    /\ run # NULL /\ run.pc \in {"load", "embed", "save"}
    /\ error' = [message |-> "Failed to sign PDF. Please try again."]
    /\ toast' = showError("Failed to sign PDF. Please try again.")
    /\ currentStep' = "preview"
    /\ run' = NULL
    /\ UNCHANGED <<uploadedPdf, uploadedSignature, documentId, signatureId,
                   signedPdfUrl, signedDocumentId, signedBlob, signaturePosition,
                   placementMode, signaturePreviewUrl, selectedImage, signatureBoxState,
                   hasSignedOnce, dragStateRef, del, isSigning>>

\* part_004:238-247: an awaited step of the try block rejected, or a
\* synchronous step threw
signFailed ==
    /\ run # NULL /\ run.pc \in {"load", "embed", "save"}
    /\ error' = [message |-> "Failed to sign PDF. Please try again."]
    /\ toast' = showError("Failed to sign PDF. Please try again.")
    /\ currentStep' = "preview"
    /\ isSigning' = FALSE
    /\ run' = NULL
    /\ UNCHANGED <<uploadedPdf, uploadedSignature, documentId, signatureId,
                   signedPdfUrl, signedDocumentId, signedBlob, signaturePosition,
                   placementMode, signaturePreviewUrl, selectedImage, signatureBoxState,
                   hasSignedOnce, dragStateRef, del>>

----------------------------------------------------------------------------
(* Deleting the signed document: the reset of the session *)

\* part_004:549-557: the Delete Signed PDF button is enabled
deleteButtonEnabled ==
    previewInteractive /\ signedBlob # NULL /\ signedDocumentId # NULL

\* part_004:287-299: the click, confirmed, up to the await
handleDeleteSignedPdf ==
    /\ deleteButtonEnabled
    /\ del = NULL
    /\ signedDocumentId # NULL
    /\ del' = [signedDocumentId |-> signedDocumentId]
    /\ UNCHANGED <<currentStep, uploadedPdf, uploadedSignature, documentId,
                   signatureId, signedPdfUrl, signedDocumentId, signedBlob,
                   error, isSigning, signaturePosition, placementMode,
                   signaturePreviewUrl, selectedImage, signatureBoxState, hasSignedOnce,
                   dragStateRef, run, toast>>

\* part_004:299-323: deleteSignedDocument resolved
deleteResolved ==
    /\ del # NULL
    /\ signedPdfUrl' = NULL
    /\ signedBlob' = NULL
    /\ signedDocumentId' = NULL
    /\ uploadedPdf' = NULL
    /\ uploadedSignature' = NULL
    /\ documentId' = NULL
    /\ signatureId' = NULL
    /\ signaturePosition' = NULL
    /\ signatureBoxState' = [history |-> <<>>, index |-> -1]
    /\ currentStep' = "upload"
    /\ error' = NULL
    /\ hasSignedOnce' = FALSE
    /\ toast' = showSuccess("Signed PDF deleted successfully.")
    /\ del' = NULL
    /\ UNCHANGED <<isSigning, placementMode, signaturePreviewUrl, selectedImage, dragStateRef,
                   run>>

\* part_004:324-328: deleteSignedDocument rejected
deleteRejected ==
    /\ del # NULL
    /\ toast' = showError("Failed to delete signed PDF. Please try again.")
    /\ del' = NULL
    /\ UNCHANGED <<currentStep, uploadedPdf, uploadedSignature, documentId,
                   signatureId, signedPdfUrl, signedDocumentId, signedBlob,
                   error, isSigning, signaturePosition, placementMode,
                   signaturePreviewUrl, selectedImage, signatureBoxState, hasSignedOnce,
                   dragStateRef, run>>

----------------------------------------------------------------------------
(* Specifications *)

\* The session: every handler of ApplicationSection and PDFPreview.  The
\* pointer input is kept to one pointer and one position (the point where a
\* move drag grabs the default box), so that the signing and deleting runs
\* are explored under every interleaving with the uploads and the editor.
\* The Remove button of the upload widget, which touches nothing of the
\* session, is part of NextUploads.
GrabOfDefault == { grabPoint(defaultBox, "move") }

CentreClick == { <<50004, 50004>> }

Next ==
    \/ \E file \in PdfFiles : handlePdfUpload(file)
    \/ \E file \in ImageFiles : handleSignatureUpload(file)
    \/ \E i \in PageIndexes, pt \in CentreClick : handlePageClick(i, pt)
    \/ \E i \in PageIndexes, m \in {"move", "resize"} : overlayPointerDown(i, 1, m)
    \/ \E pt \in GrabOfDefault : handleSignaturePointerMove(1, pt)
    \/ handleSignaturePointerUp(1)
    \/ handleStampPdf
    \/ signLoaded
    \/ signEmbedded
    \/ signSaved
    \/ \E ok \in BOOLEAN : signRegistered(ok)
    \/ signFailed
    \/ handleDeleteSignedPdf
    \/ deleteResolved
    \/ deleteRejected

Spec == Init /\ [][Next]_vars

\* The box editor alone: the uploads and every pointer input, no signing
\* (the format of the image plays no part in the editor).
PngFiles == { f \in ImageFiles : f.format = "png" }

NextEditor ==
    \/ \E file \in PdfFiles : handlePdfUpload(file)
    \/ \E file \in PngFiles : handleSignatureUpload(file)
    \/ \E i \in PageIndexes, pt \in ClickPoints : handlePageClick(i, pt)
    \/ \E i \in PageIndexes, p \in Pointers, m \in {"move", "resize"} :
          overlayPointerDown(i, p, m)
    \/ \E p \in Pointers, pt \in MovePoints : handleSignaturePointerMove(p, pt)
    \/ \E p \in Pointers : handleSignaturePointerUp(p)

SpecEditor == Init /\ [][NextEditor]_vars

\* The two upload widgets and stamping, without the editor: every file the
\* signature widget accepts, and its Remove button.
NextUploads ==
    \/ \E file \in PdfFiles : handlePdfUpload(file)
    \/ \E file \in AcceptedImages : handleSignatureUpload(file)
    \/ resetUpload
    \/ handleStampPdf
    \/ signLoaded
    \/ signEmbedded
    \/ signSaved
    \/ \E ok \in BOOLEAN : signRegistered(ok)
    \/ signFailed

SpecUploads == Init /\ [][NextUploads]_vars

\* part_004:183-247: the continuations of handleSignPdf.  Each awaited
\* promise settles, so a run in flight takes its next step or its catch
\* block.
RunProgress ==
    \/ signLoaded
    \/ signEmbedded
    \/ signSaved
    \/ \E ok \in BOOLEAN : signRegistered(ok)
    \/ signFailed

\* SpecUploads with every awaited step of a run settling
SpecUploadsFair == Init /\ [][NextUploads]_vars /\ WF_vars(RunProgress)

\* Stamping alone, from every placement of a grid of valid boxes: the state
\* after both uploads and a committed drag that left the box there (the
\* snapshots below the current one play no part in stamping).
GridX == {0, 37500, 80000, 95000}
GridY == {0, 44000, 80000, 97000}
GridWidth == {minWidth, 10000, defaultWidth, Unit}
GridHeight == {minHeight, 10000, defaultHeight, Unit}

GridBoxes ==
    { b \in [x : GridX, y : GridY, width : GridWidth, height : GridHeight] :
        b.x + b.width <= Unit /\ b.y + b.height <= Unit }

InitStamp ==
    /\ \E pdf \in PdfFiles, img \in ImageFiles, box \in GridBoxes :
         /\ uploadedPdf = pdf
         /\ documentId = idOf(pdf)
         /\ uploadedSignature = img
         /\ signatureId = idOf(img)
         /\ signaturePreviewUrl = [url |-> img.name]
         /\ selectedImage = [url |-> img.name]
         /\ signatureBoxState = [history |-> <<box, box>>, index |-> 1]
         /\ signaturePosition = positionOf(box)
    /\ currentStep = "preview"
    /\ signedPdfUrl = NULL
    /\ signedDocumentId = NULL
    /\ signedBlob = NULL
    /\ error = NULL
    /\ isSigning = FALSE
    /\ placementMode = TRUE
    /\ hasSignedOnce = FALSE
    /\ dragStateRef = NULL
    /\ run = NULL
    /\ del = NULL
    /\ toast = NULL

NextStamp ==
    \/ handleStampPdf
    \/ signLoaded
    \/ signEmbedded
    \/ signSaved
    \/ \E ok \in BOOLEAN : signRegistered(ok)
    \/ signFailed

SpecStamp == InitStamp /\ [][NextStamp]_vars

\* handleSignPdf taken as a function of the box it finds in the state: the
\* stamping actions started with a box of the grid whether or not it fits
\* the page, and with sizes below the minimum.  The editor produces none of
\* the boxes outside GridBoxes' constraints; they stand for a box that
\* reached the session by another way than PDFPreview's handlers.
AnyBoxes ==
    [x : GridX, y : GridY,
     width : GridWidth \cup {1000}, height : GridHeight \cup {1000}]

PagedPdfFiles == { f \in PdfFiles : Len(f.pages) > 0 }

InitAnyBox ==
    /\ \E pdf \in PagedPdfFiles, img \in PngFiles, box \in AnyBoxes :
         /\ uploadedPdf = pdf
         /\ documentId = idOf(pdf)
         /\ uploadedSignature = img
         /\ signatureId = idOf(img)
         /\ signaturePreviewUrl = [url |-> img.name]
         /\ selectedImage = [url |-> img.name]
         /\ signatureBoxState = [history |-> <<box, box>>, index |-> 1]
         /\ signaturePosition = positionOf(box)
    /\ currentStep = "preview"
    /\ signedPdfUrl = NULL
    /\ signedDocumentId = NULL
    /\ signedBlob = NULL
    /\ error = NULL
    /\ isSigning = FALSE
    /\ placementMode = TRUE
    /\ hasSignedOnce = FALSE
    /\ dragStateRef = NULL
    /\ run = NULL
    /\ del = NULL
    /\ toast = NULL

SpecAnyBox == InitAnyBox /\ [][NextStamp]_vars

\* The drag alone, from every placement of the grid of valid boxes: the
\* state after both uploads and a committed drag that left the box there.
\* The pointer goes down on the overlay and moves to the positions of
\* MovePoints or to the one that asks the box at 0.8 of width 0.1 to grow to
\* a width of 0.5 (its handle is grabbed at 0.89).
DragPoints == MovePoints \cup { <<129000, 89000>> }

InitDrag ==
    /\ \E pdf \in PagedPdfFiles, img \in PngFiles, box \in GridBoxes :
         /\ uploadedPdf = pdf
         /\ documentId = idOf(pdf)
         /\ uploadedSignature = img
         /\ signatureId = idOf(img)
         /\ signaturePreviewUrl = [url |-> img.name]
         /\ selectedImage = [url |-> img.name]
         /\ signatureBoxState = [history |-> <<defaultBox, box>>, index |-> 1]
         /\ signaturePosition = positionOf(box)
    /\ currentStep = "preview"
    /\ signedPdfUrl = NULL
    /\ signedDocumentId = NULL
    /\ signedBlob = NULL
    /\ error = NULL
    /\ isSigning = FALSE
    /\ placementMode = TRUE
    /\ hasSignedOnce = FALSE
    /\ dragStateRef = NULL
    /\ run = NULL
    /\ del = NULL
    /\ toast = NULL

NextDrag ==
    \/ \E i \in PageIndexes, p \in Pointers, m \in {"move", "resize"} :
          overlayPointerDown(i, p, m)
    \/ \E p \in Pointers, pt \in DragPoints : handleSignaturePointerMove(p, pt)

SpecDrag == InitDrag /\ [][NextDrag]_vars

\* The state updater of updateSignatureBox taken as a function of its
\* argument prev: the editor alone, started with the index drawn at every
\* position of a history of three snapshots (the default box, that box
\* moved, and the moved box resized).
SeedHistory ==
    << defaultBox,
       [x |-> 10000, y |-> 20000, width |-> 25000, height |-> 12000],
       [x |-> 10000, y |-> 20000, width |-> 40000, height |-> 30000] >>

InitHistory ==
    /\ \E pdf \in PdfFiles, img \in PngFiles, i \in 0..(Len(SeedHistory) - 1) :
         /\ uploadedPdf = pdf
         /\ documentId = idOf(pdf)
         /\ uploadedSignature = img
         /\ signatureId = idOf(img)
         /\ signaturePreviewUrl = [url |-> img.name]
         /\ selectedImage = [url |-> img.name]
         /\ signatureBoxState = [history |-> SeedHistory, index |-> i]
         /\ signaturePosition = positionOf(SeedHistory[i + 1])
    /\ currentStep = "preview"
    /\ signedPdfUrl = NULL
    /\ signedDocumentId = NULL
    /\ signedBlob = NULL
    /\ error = NULL
    /\ isSigning = FALSE
    /\ placementMode = TRUE
    /\ hasSignedOnce = FALSE
    /\ dragStateRef = NULL
    /\ run = NULL
    /\ del = NULL
    /\ toast = NULL

NextHistory ==
    \/ \E i \in PageIndexes, pt \in ClickPoints : handlePageClick(i, pt)
    \/ \E i \in PageIndexes, p \in Pointers, m \in {"move", "resize"} :
          overlayPointerDown(i, p, m)
    \/ \E p \in Pointers, pt \in MovePoints : handleSignaturePointerMove(p, pt)
    \/ \E p \in Pointers : handleSignaturePointerUp(p)

SpecHistory == InitHistory /\ [][NextHistory]_vars

----------------------------------------------------------------------------
(* Properties *)

history == signatureBoxState.history

\* The uploaded file a stored id stands for
pdfOf(id) == CHOOSE f \in PdfFiles : idOf(f) = id

signFailedMessage == [message |-> "Failed to sign PDF. Please try again."]

\* A run of handleSignPdf ends in its catch block: it is in flight before
\* the output is stored, and gone in the next state.
RunEndsFailing ==
    /\ run # NULL /\ run.pc \in {"load", "embed", "save"}
    /\ run' = NULL

\* C1 (as claimed): at-most-once stamping.  While a signed output produced
\* in this session is stored (no upload and no reset has cleared it), no
\* stamp request starts a new run of handleSignPdf.
C1_AtMostOnce ==
    [][signedBlob # NULL => ~(run = NULL /\ run' # NULL)]_vars

\* C2 (as claimed): whenever the session is in 'complete', reached only by
\* a successful stamp, hasSignedOnce is true.
C2_CompleteIsStamped == currentStep = "complete" => hasSignedOnce

\* C3: stamping atomicity.  A run that fails (at load, embed, draw or save)
\* leaves signedBlob and signedPdfUrl as they were, and every stored output
\* carries one drawing for each page of its document: none is partial.
C3_NoPartialOutput ==
    signedBlob # NULL =>
        /\ Len(signedBlob.drawn) = Len(pdfOf(signedBlob.documentId).pages)
        /\ signedPdfUrl = [url |-> signedBlob]

\* C3, the formula: no stored output is partial, and a failing run stores
\* none.
C3_Atomicity ==
    /\ []C3_NoPartialOutput
    /\ [][RunEndsFailing =>
            signedBlob' = signedBlob /\ signedPdfUrl' = signedPdfUrl]_vars

\* C3 witness: a run has failed and been reported, and nothing is published.
C3_Witness ==
    /\ error = signFailedMessage
    /\ run = NULL
    /\ currentStep = "preview"
    /\ signedBlob = NULL /\ signedPdfUrl = NULL

\* The page bounds of a box
InBounds(box) ==
    /\ box.x >= 0
    /\ box.y >= 0
    /\ box.x + box.width <= Unit
    /\ box.y + box.height <= Unit

\* C4: clamp invariant.  Every box that exists - every snapshot, hence the
\* current box after each pointerMove, page click and signature upload -
\* lies inside the page.
C4_ClampInvariant == \A i \in DOMAIN history : InBounds(history[i])

\* C4 witness: in the middle of a move drag the box has been pushed against
\* the right and the top edge of the page.
C4_Witness ==
    /\ dragStateRef # NULL /\ dragStateRef.mode = "move"
    /\ currentSignatureBox # NULL
    /\ currentSignatureBox # dragStateRef.startBox
    /\ currentSignatureBox.x + currentSignatureBox.width = Unit
    /\ currentSignatureBox.y = 0

\* C5: minimum-size invariant.  Every box is at least minWidth by minHeight,
\* and a resize drag never starts from a box that leaves less than the
\* minimum size to its right or below (so clamp's min never exceeds its max).
C5_MinimumSize ==
    /\ \A i \in DOMAIN history :
         history[i].width >= minWidth /\ history[i].height >= minHeight
    /\ dragStateRef # NULL /\ dragStateRef.mode = "resize" =>
         /\ Unit - dragStateRef.startBox.x >= minWidth
         /\ Unit - dragStateRef.startBox.y >= minHeight

\* C5 witness: a resize drag on a box of minimum width that touches the
\* right edge (1 - x = minWidth), after a pointerMove that asked for more.
C5_Witness ==
    /\ dragStateRef # NULL /\ dragStateRef.mode = "resize"
    /\ dragStateRef.startBox.x = Unit - minWidth
    /\ currentSignatureBox # NULL
    /\ currentSignatureBox.width = minWidth
    /\ currentSignatureBox.height > dragStateRef.startBox.height

\* The normalized box a drawn rectangle stands for on a page: divide by the
\* page's own size and flip y back.  NULL when a division leaves a remainder.
normalizedOf(rect, page) ==
    LET top == page.height * Unit - rect.y - rect.height
    IN  IF \/ rect.x % page.width # 0 \/ rect.width % page.width # 0
           \/ top % page.height # 0 \/ rect.height % page.height # 0
        THEN NULL
        ELSE [ x      |-> rect.x \div page.width,
               y      |-> top \div page.height,
               width  |-> rect.width \div page.width,
               height |-> rect.height \div page.height ]

\* drawn holds one rectangle per page, each standing for box on its page
DrawnMatches(drawn, pages, box) ==
    /\ Len(drawn) = Len(pages)
    /\ \A i \in 1..Len(pages) : normalizedOf(drawn[i], pages[i]) = box

\* C6: geometry invariance.  After the loop over the pages, and in every
\* stored output, the rectangle of each page divided by that page's own
\* size (y flipped back) is the box the run was started with.
C6_GeometryInvariance ==
    /\ run # NULL /\ run.pc \in {"save", "register"} =>
         DrawnMatches(run.drawn, run.uploadedPdf.pages, run.box)
    /\ signedBlob # NULL =>
         DrawnMatches(signedBlob.drawn, pdfOf(signedBlob.documentId).pages,
                      signedBlob.box)

\* C6 witness: the two-page document (595x842 and 420x595) is stored stamped
\* with the default box; the rectangles differ in points (Scenario A: x is
\* 223.125pt on the first page).
C6_Witness ==
    /\ signedBlob # NULL
    /\ signedBlob.box = defaultBox
    /\ Len(signedBlob.drawn) = 2
    /\ signedBlob.drawn[1].x = 22312500
    /\ signedBlob.drawn[1].y = 37048000
    /\ signedBlob.drawn[2].x = 15750000
    /\ signedBlob.drawn[1] # signedBlob.drawn[2]

\* C7 (as claimed): single active drag.  While a drag is active, no event
\* hands it to another pointer id.
C7_SingleActiveDrag ==
    [][dragStateRef # NULL /\ dragStateRef' # NULL =>
         dragStateRef'.pointerId = dragStateRef.pointerId]_vars

\* C8 (as claimed): a stored signed output belongs to the document and the
\* signature that are currently uploaded.
C8_OutputIsCurrent ==
    signedBlob # NULL =>
        /\ signedBlob.documentId = documentId
        /\ signedBlob.signatureId = signatureId

\* C9: a failed stamp puts the session back in 'preview' with an error set
\* and hasSignedOnce false, and leaves the box, the history and the uploaded
\* document and signature as they were.
C9_FailureKeepsPlacement ==
    [][RunEndsFailing =>
         /\ currentStep' = "preview"
         /\ error' # NULL
         /\ hasSignedOnce' = FALSE
         /\ signatureBoxState' = signatureBoxState
         /\ signaturePosition' = signaturePosition
         /\ uploadedPdf' = uploadedPdf /\ documentId' = documentId
         /\ uploadedSignature' = uploadedSignature /\ signatureId' = signatureId]_vars

\* C9 witness: a stamp has failed and the resized box is still the current
\* one, with its snapshots.
C9_Witness ==
    /\ error = signFailedMessage
    /\ run = NULL
    /\ currentStep = "preview"
    /\ ~hasSignedOnce
    /\ Len(history) = 2
    /\ currentSignatureBox # NULL
    /\ currentSignatureBox # defaultBox
    /\ uploadedPdf # NULL /\ uploadedSignature # NULL

\* A pointerMove or pointerUp of the overlay is handled
PointerStep ==
    \/ \E p \in Pointers, pt \in MovePoints : handleSignaturePointerMove(p, pt)
    \/ \E p \in Pointers : handleSignaturePointerUp(p)

\* C10 (as claimed): the pointer events of a drag keep the snapshots that
\* were committed before, and add at most the one pushed by pointerUp.
C10_CommitKeepsSnapshots ==
    [][PointerStep =>
         /\ Len(signatureBoxState'.history) <= Len(history) + 1
         /\ \A i \in 1..Len(history) :
              signatureBoxState'.history[i] = history[i]]_vars

\* A commit: a click on the first page in placement mode, or the pointerUp
\* that ends a drag (the two callers passing pushHistory = true)
CommitStep ==
    \/ placementMode /\ \E pt \in ClickPoints : handlePageClick(0, pt)
    \/ dragStateRef # NULL /\ \E p \in Pointers : handleSignaturePointerUp(p)

\* C11: history truncation.  A commit made while the index is before the
\* tail keeps the snapshots up to the index, drops every snapshot after it,
\* appends the new snapshot and makes it the current one; no snapshot lies
\* beyond the index afterwards, so there is nothing a redo could move to.
C11_Truncation ==
    [][CommitStep /\ signatureBoxState.index + 1 < Len(history) =>
         LET index == signatureBoxState.index
             after == signatureBoxState'
         IN  /\ Len(after.history) = index + 2
             /\ \A i \in 1..(index + 1) : after.history[i] = history[i]
             /\ after.index = Len(after.history) - 1
             /\ after.history[after.index + 1] = currentSignatureBox']_vars

\* C11 witness: of the three snapshots the first is kept and followed by the
\* committed one, which is current; the two that came after the index are
\* gone.
C11_Witness ==
    /\ Len(history) = 2
    /\ history[1] = SeedHistory[1]
    /\ history[2] # SeedHistory[2]
    /\ signatureBoxState.index = 1
    /\ currentSignatureBox = history[2]

\* A step of the program that is an undo: the index goes down by one and the
\* snapshots stay as they are
UndoStep ==
    /\ Next
    /\ signatureBoxState' = [signatureBoxState EXCEPT !.index = @ - 1]

\* A step of the program that is a redo: the index goes up by one and the
\* snapshots stay as they are
RedoStep ==
    /\ Next
    /\ signatureBoxState' = [signatureBoxState EXCEPT !.index = @ + 1]

\* C12 (as claimed): undo and redo are pure index moves.  Whenever the index
\* is above 0 the user can undo, which moves the index down by one and leaves
\* the snapshots alone; whenever it is below the tail the user can redo,
\* which moves it up by one.
C12_UndoRedoMoveIndex ==
    /\ signatureBoxState.index > 0 => ENABLED UndoStep
    /\ signatureBoxState.index + 1 < Len(history) => ENABLED RedoStep

\* A click on the first page is handled
FirstPageClick == \E pt \in ClickPoints : handlePageClick(0, pt)

\* C13 (as claimed): a click on the first page creates a box only when no
\* box exists and placement mode is on; when a box exists the click leaves
\* the box, its size, the snapshots and the index as they are.
C13_ClickKeepsExistingBox ==
    [][FirstPageClick /\ (currentSignatureBox # NULL \/ ~placementMode) =>
         signatureBoxState' = signatureBoxState]_vars

firstPageOnly ==
    showError("Hey! Signature positioning should be done only on the first page.")

\* A click on a page other than the first is handled
OtherPageClick ==
    \E i \in PageIndexes \ {0}, pt \in ClickPoints : handlePageClick(i, pt)

\* A pointer goes down on the overlay of a page other than the first
OtherPagePointerDown ==
    \E i \in PageIndexes \ {0}, p \in Pointers, m \in {"move", "resize"} :
        overlayPointerDown(i, p, m)

\* C14: positioning is restricted to the first page.  A click on a page of
\* index other than 0 shows the first-page error and leaves the snapshots,
\* the index (hence the box) and the selected position as they are; a
\* pointer going down on the overlay of such a page starts no drag.
C14_FirstPageOnly ==
    [][/\ OtherPageClick =>
            /\ toast' = firstPageOnly
            /\ signatureBoxState' = signatureBoxState
            /\ signaturePosition' = signaturePosition
       /\ OtherPagePointerDown => dragStateRef' = dragStateRef]_vars

\* C14 witness: the error is on screen and the box committed before the
\* click on the second page is still the current one.
C14_Witness ==
    /\ toast = firstPageOnly
    /\ numPages > 1
    /\ Len(history) = 2
    /\ currentSignatureBox = history[2]
    /\ signaturePosition = positionOf(currentSignatureBox)
    /\ dragStateRef = NULL

\* The reset of the session takes effect
ResetStep == del # NULL /\ deleteResolved

\* The session as a reset must leave it
SessionCleared ==
    /\ ~hasSignedOnce
    /\ currentSignatureBox = NULL
    /\ signatureBoxState = [history |-> <<>>, index |-> -1]
    /\ uploadedPdf = NULL /\ documentId = NULL
    /\ uploadedSignature = NULL /\ signatureId = NULL
    /\ signedBlob = NULL /\ signedPdfUrl = NULL /\ signedDocumentId = NULL
    /\ currentStep = "upload"

\* C15 (as claimed): a reset clears hasSignedOnce, the box, the history
\* (index -1), the document, the signature and the signed output and puts
\* the session back in 'upload'; and whenever a stamp has succeeded and the
\* session is in 'complete', a reset can be started (or is under way).
C15_ResetClearsAndIsAvailable ==
    /\ [][ResetStep => SessionCleared']_vars
    /\ [](currentStep = "complete" /\ run = NULL =>
            ENABLED handleDeleteSignedPdf \/ del # NULL)

\* C16 (as claimed): box lifecycle.  A box exists only while a signature is
\* uploaded; while the upload widget holds no signature (none was uploaded
\* yet, or the user removed it) there is no box, the history is empty and
\* Stamp PDF is not available.
C16_BoxLifecycle ==
    /\ currentSignatureBox # NULL => uploadedSignature # NULL
    /\ selectedImage = NULL =>
         /\ currentSignatureBox = NULL
         /\ history = <<>>
         /\ ~stampButtonEnabled

\* C17 (as claimed): a document that parses but has no pages is not
\* stamped.  No stored output belongs to a document of zero pages, and a run
\* of handleSignPdf on such a document never puts the session in 'complete'.
C17_EmptyDocumentRejected ==
    /\ [](signedBlob # NULL => Len(pdfOf(signedBlob.documentId).pages) > 0)
    /\ [][run # NULL /\ Len(run.uploadedPdf.pages) = 0 =>
            currentStep' # "complete"]_vars

\* C18 (as claimed): image format dispatch.  The embed of a run is done
\* with the procedure of the file's actual format - embedPng for PNG bytes,
\* embedJpg for JPEG bytes - for every file the upload validation accepts,
\* and no run gets past the embed with bytes that are neither.
C18_FormatDispatch ==
    /\ run # NULL /\ run.pc = "embed" =>
         /\ run.uploadedSignature.format = "png" =>
                embedProcedure(run.uploadedSignature) = "embedPng"
         /\ run.uploadedSignature.format = "jpeg" =>
                embedProcedure(run.uploadedSignature) = "embedJpg"
    /\ run # NULL /\ run.pc \in {"save", "register"} =>
         run.uploadedSignature.format \in {"png", "jpeg"}

\* The invariants of a normalized box: inside the page and at least the
\* minimum size
ValidBox(box) ==
    /\ InBounds(box)
    /\ box.width >= minWidth
    /\ box.height >= minHeight

C20_BoxOfTheCall ==
    /\ [][run = NULL /\ run' # NULL => run'.box = currentSignatureBox]_vars
    /\ [][run # NULL /\ run' # NULL => run'.box = run.box]_vars
    /\ [](run # NULL /\ run.pc \in {"save", "register"} =>
            run.drawn = drawAllPages(run.box, run.uploadedPdf.pages))
    /\ [][run # NULL /\ run.pc = "save" /\ run' # NULL /\ run'.pc = "register" =>
            signedBlob'.box = run.box /\ signedBlob'.drawn = run.drawn]_vars

\* C20 witness: the pages have been drawn with the box of the call while the
\* current box, resized after the click on Stamp PDF, is another one.
C20_Witness ==
    /\ run # NULL /\ run.pc = "save"
    /\ Len(run.drawn) = 2
    /\ run.drawn = drawAllPages(run.box, run.uploadedPdf.pages)
    /\ currentSignatureBox # NULL
    /\ currentSignatureBox # run.box
    /\ run.drawn # drawAllPages(currentSignatureBox, run.uploadedPdf.pages)

\* The registration request of a run is rejected: the run ends at its last
\* step and no id of a signed document is stored.
RegistrationRejected ==
    /\ run # NULL /\ run.pc = "register"
    /\ run' = NULL
    /\ signedDocumentId' = NULL

\* C21 (as claimed): no failure of a stamp request is swallowed.  When a step
\* of the run fails - load, embed, draw, save or the registration of the
\* signed document - the run ends with an error set and the session is not
\* put in 'complete'.
C21_NoFailureSwallowed ==
    [][RunEndsFailing \/ RegistrationRejected =>
         error' # NULL /\ currentStep' # "complete"]_vars

\* The edges of the session's lifecycle: upload -> signature -> preview ->
\* signing -> complete, and signing -> preview
LifecycleEdges ==
    { <<"upload", "signature">>, <<"signature", "preview">>,
      <<"preview", "signing">>, <<"signing", "complete">>,
      <<"signing", "preview">> }

\* C22 (as claimed): lifecycle order.  The step changes only along the
\* edges above or by a reset, which leads to 'upload'; 'complete' is entered
\* only from 'signing', and 'signing' only from 'preview' with the document,
\* the signature and the box present.
C22_LifecycleOrder ==
    [][currentStep' # currentStep =>
         /\ \/ <<currentStep, currentStep'>> \in LifecycleEdges
            \/ ResetStep /\ currentStep' = "upload"
         /\ currentStep' = "signing" =>
              /\ uploadedPdf # NULL
              /\ uploadedSignature # NULL
              /\ currentSignatureBox # NULL]_vars

\* drawn has one entry for each page, in the order of the pages, and entry i
\* has the position and the size of box scaled by page i
OnePerPage(drawn, pages, box) ==
    /\ DOMAIN drawn = 1..Len(pages)
    /\ \A i \in 1..Len(pages) :
         /\ drawn[i].width = box.width * pages[i].width
         /\ drawn[i].height = box.height * pages[i].height
         /\ drawn[i].x = box.x * pages[i].width

\* C23: on a successful stamp every page of the document, in document
\* order, has received one drawing of the image, with width and height taken
\* from the box: no page is skipped, none is drawn twice.
C23_EveryPageOnce ==
    /\ run # NULL /\ run.pc \in {"save", "register"} =>
         OnePerPage(run.drawn, run.uploadedPdf.pages, run.box)
    /\ signedBlob # NULL =>
         OnePerPage(signedBlob.drawn, pdfOf(signedBlob.documentId).pages,
                    signedBlob.box)

\* C23 witness: a stamp of the two-page document has succeeded; the first
\* entry has the box's size on the 595pt page, the second on the 420pt page.
C23_Witness ==
    /\ currentStep = "complete"
    /\ signedBlob # NULL
    /\ signedBlob.box # defaultBox
    /\ Len(signedBlob.drawn) = 2
    /\ signedBlob.drawn[1].width = signedBlob.box.width * 595
    /\ signedBlob.drawn[2].width = signedBlob.box.width * 420

\* A pointerMove of the overlay is handled
MoveStep ==
    \E p \in Pointers, pt \in MovePoints : handleSignaturePointerMove(p, pt)

\* C24: a pointerMove during a drag writes only the current box: the number
\* of snapshots and the index stay as they are, at every pointerMove.
C24_MoveIsEphemeral ==
    [][MoveStep =>
         /\ Len(signatureBoxState'.history) = Len(history)
         /\ signatureBoxState'.index = signatureBoxState.index]_vars

\* C24 witness: in a drag started at the middle one of three snapshots, a
\* pointerMove has overwritten that snapshot in place: the history still has
\* its three entries, the first and the last as they were, and the index is
\* still 1.
C24_Witness ==
    /\ dragStateRef # NULL
    /\ dragStateRef.startBox = SeedHistory[2]
    /\ Len(history) = 3
    /\ signatureBoxState.index = 1
    /\ history[1] = SeedHistory[1]
    /\ history[3] = SeedHistory[3]
    /\ currentSignatureBox # SeedHistory[2]

Lower(a, b) == IF a < b THEN a ELSE b

Higher(a, b) == IF a > b THEN a ELSE b

\* C25: move drag.  Every pointerMove of a drag in move mode, started on the
\* box b0 with the pointer at (startX, startY), yields the box of b0's size
\* at x = b0.x + dx and y = b0.y + dy, each kept between 0 and 1 minus the
\* size; dx and dy are measured from the start of the drag, so earlier
\* pointerMoves of the drag play no part.
C25_MoveDrag ==
    [][\A p \in Pointers, pt \in DragPoints :
         /\ dragStateRef # NULL /\ dragStateRef.mode = "move"
         /\ handleSignaturePointerMove(p, pt)
         => LET b0 == dragStateRef.startBox
                dx == pt[1] - dragStateRef.startX
                dy == pt[2] - dragStateRef.startY
            IN  currentSignatureBox' =
                  [ x      |-> Lower(Higher(b0.x + dx, 0), Unit - b0.width),
                    y      |-> Lower(Higher(b0.y + dy, 0), Unit - b0.height),
                    width  |-> b0.width,
                    height |-> b0.height ]]_vars

\* C25 witness: the default box dragged by (0.1, -0.05) is at 0.475, 0.39
\* with its size unchanged, the drag still active.
C25_Witness ==
    /\ dragStateRef # NULL /\ dragStateRef.mode = "move"
    /\ dragStateRef.startBox = defaultBox
    /\ currentSignatureBox =
         [x |-> 47500, y |-> 39000, width |-> 25000, height |-> 12000]

\* C26: resize drag.  Every pointerMove of a drag in resize mode started on
\* the box b0 yields the box at b0's x and y with width b0.width + dx kept
\* between 0.05 and 1 - b0.x, and height b0.height + dy kept between 0.03
\* and 1 - b0.y.
C26_ResizeDrag ==
    [][\A p \in Pointers, pt \in DragPoints :
         /\ dragStateRef # NULL /\ dragStateRef.mode = "resize"
         /\ handleSignaturePointerMove(p, pt)
         => LET b0 == dragStateRef.startBox
                dx == pt[1] - dragStateRef.startX
                dy == pt[2] - dragStateRef.startY
            IN  currentSignatureBox' =
                  [ x      |-> b0.x,
                    y      |-> b0.y,
                    width  |-> Lower(Higher(b0.width + dx, 5000), Unit - b0.x),
                    height |-> Lower(Higher(b0.height + dy, 3000), Unit - b0.y) ]]_vars

\* C26 witness: the box at 0.8, 0.8 of size 0.1 by 0.1, asked by the pointer
\* to grow to a width of 0.5, has width 0.2 and its height and corner
\* unchanged.
C26_Witness ==
    /\ dragStateRef # NULL /\ dragStateRef.mode = "resize"
    /\ dragStateRef.startBox =
         [x |-> 80000, y |-> 80000, width |-> 10000, height |-> 10000]
    /\ dragStateRef.startBox.width + (129000 - dragStateRef.startX) = 50000
    /\ currentSignatureBox =
         [x |-> 80000, y |-> 80000, width |-> 20000, height |-> 10000]

\* A signature upload is finished
SignatureUploadStep ==
    \E file \in AcceptedImages : handleSignatureUpload(file)

\* C27: finishing a signature upload leaves one snapshot, the default box
\* {x: 0.375, y: 0.44, width: 0.25, height: 0.12}, at index 0, with placement
\* mode on, hasSignedOnce false and no signed output, whatever was there
\* before.
C27_UploadResetsBox ==
    [][SignatureUploadStep =>
         /\ signatureBoxState' =
              [ history |-> << [x |-> 37500, y |-> 44000,
                                width |-> 25000, height |-> 12000] >>,
                index   |-> 0 ]
         /\ placementMode'
         /\ ~hasSignedOnce'
         /\ signedBlob' = NULL
         /\ signedPdfUrl' = NULL
         /\ signedDocumentId' = NULL]_vars

\* C27 witness: a run that was started with a resized box has stored its
\* output and awaits the registration; a signature uploaded since then has
\* cleared the output and put the default box back as the only snapshot.
C27_Witness ==
    /\ run # NULL /\ run.pc = "register"
    /\ run.box # defaultBox
    /\ signedBlob = NULL /\ signedPdfUrl = NULL
    /\ signatureBoxState = [history |-> <<defaultBox>>, index |-> 0]
    /\ placementMode
    /\ ~hasSignedOnce
    /\ currentStep = "preview"

C29_HistoryIndex ==
    \/ /\ history = <<>>
       /\ signatureBoxState.index = -1
       /\ currentSignatureBox = NULL
    \/ /\ 0 <= signatureBoxState.index
       /\ signatureBoxState.index < Len(history)
       /\ currentSignatureBox # NULL
       /\ currentSignatureBox = history[signatureBoxState.index + 1]

\* C29 witness: after a drag of the default box and its commit the History
\* holds two snapshots of the dragged box and the index is at the last one.
C29_Witness ==
    /\ Len(history) = 2
    /\ signatureBoxState.index = 1
    /\ history[2] # defaultBox
    /\ currentSignatureBox = history[2]
    /\ dragStateRef = NULL

\* C30: every stamping ends.  With every awaited step settling, a session
\* with isSigning true reaches a state with no run in flight, isSigning
\* false and the step 'complete' or 'preview'; and isSigning is true only
\* while a run is in flight.
C30_StampingEnds ==
    /\ isSigning ~> (/\ ~isSigning
                     /\ run = NULL
                     /\ currentStep \in {"complete", "preview"})
    /\ [](isSigning => run # NULL)

\* C30 witness: a run has ended in its catch block on a signature its embed
\* procedure rejects; the session is back in 'preview' with isSigning false.
C30_Witness ==
    /\ error = signFailedMessage
    /\ run = NULL
    /\ ~isSigning
    /\ currentStep = "preview"
    /\ uploadedSignature # NULL
    /\ ~embedSucceeds(uploadedSignature)
====
